---- MODULE Spec2Model ----
(***************************************************************************)
(* A model of the retrieval-and-guardrail pipeline of rag-chat-resume:     *)
(*   - RateLimiter (app/main.py): per-IP sliding window, daily quota and   *)
(*     the hourly eviction sweep;                                          *)
(*   - the POST /api/chat handler of app/main.py;                          *)
(*   - sanitize_input, detect_prompt_injection, check_content_safety and   *)
(*     load_embeddings / find_relevant_content of app/utils.py.            *)
(*   - the POST /api/chat handler of api/index.py with its own             *)
(*     load_embeddings and generate_embeddings_from_content, run step by   *)
(*     step (api/chat.py serves the application of app/main.py).           *)
(*                                                                         *)
(* Time is an integer count of ticks of 1/Res second, so that the          *)
(* truncation done by timedelta.seconds is visible.  The chat handler is   *)
(* an `async def` that never awaits (both API clients are the blocking     *)
(* ones), so a request runs to completion on the event loop: check() and   *)
(* the handler are atomic actions.                                         *)
(***************************************************************************)
EXTENDS Integers, Sequences, FiniteSets, TLC

VARIABLES
    now,            \* the wall clock, datetime.now(), in ticks
    ip_data,        \* RateLimiter.ip_data: a function on the IPs that have a record
    last_cleanup,   \* RateLimiter.last_cleanup
    nChecks,        \* how many check() calls were made (bounded)
    recentAdmitted, \* history: per IP, the times of the requests admitted
                    \*   in the trailing 60 seconds (now - 60s, now]
    dayAdmitted,    \* history: per IP, requests admitted since first_request
    denial,         \* history: per IP, the oldest recorded timestamp when its
                    \*   latest check was denied by the short window, else -1
    lastCheck,      \* history: what the last check() saw and returned
    cache,          \* app/utils.py _embeddings_cache
    objs,           \* how many corpus objects load_embeddings has created
    files,          \* the file at each of possible_paths
    nChats,         \* how many chat requests were handled (bounded)
    nWrites,        \* how many times a file was changed (bounded)
    last,           \* history: the last chat request and what it produced
    lastLoad,       \* history: the last load_embeddings() call
    firstLoaded,    \* history: what the first load_embeddings() call returned
    lastIndex,      \* history: what the handler of api/index.py answers to
                    \*   the last chat request, on the same corpus
    answered,       \* history: some request so far ended Answered
    index_cache,    \* api/index.py _embeddings_cache
    index_objs,     \* how many corpus objects api/index.py has created
    index_pc,       \* per request to api/index.py: where its handler stands
    index_running,  \* the request whose handler holds the event loop, or None
    index_data,     \* per request: content_data still to embed, embeddings_data
    index_got,      \* history: per request, the corpus load_embeddings returned
    index_regens,   \* history: how many regenerations were started
    ranked,         \* history: one find_relevant_content call and its result
    cleaned         \* history: one sanitize_input call and its result

rateVars == <<ip_data, last_cleanup, recentAdmitted, dayAdmitted, denial, lastCheck>>
appVars == <<cache, objs, files, nChats, nWrites, last, lastLoad, firstLoaded>>
indexVars == <<index_cache, index_objs, index_pc, index_running, index_data, index_got,
               index_regens>>
pureVars == <<ranked, cleaned>>
vars == <<now, ip_data, last_cleanup, nChecks, recentAdmitted, dayAdmitted, denial, lastCheck,
          cache, objs, files, nChats, nWrites, last, lastLoad, firstLoaded,
          lastIndex, answered, index_cache, index_objs, index_pc, index_running, index_data, index_got,
          index_regens, ranked, cleaned>>

----------------------------------------------------------------------------
(* Bounds of the model *)

Res == 2            \* clock ticks per second
MaxChecks == 8      \* check() calls in one behaviour
MaxDailyChecks == 22 \* check() calls in one behaviour of SpecDaily
MaxChats == 6       \* chat requests in one behaviour
MaxWrites == 2      \* file changes in one behaviour
MaxCorpus == 3      \* records of a corpus given to find_relevant_content
MaxTopK == 4        \* the largest top_k given to find_relevant_content
MaxText == 3        \* characters of a text given to sanitize_input

(* Program constants *)

short_limit == 5
daily_limit == 20
cleanup_interval == 3600
WindowSeconds == 60
DaySeconds == 86400

None == "None"
IPs == {"ip1", "ip2"}

\* The clock readings at which calls are made: the limiter is built at 0;
\* one tick short of a minute and the full minute; a first sweep an hour
\* before the day is over, the end of the day, and one tick later.
Instants ==
    {0, WindowSeconds * Res - 1, WindowSeconds * Res,
     (DaySeconds - cleanup_interval) * Res, DaySeconds * Res, DaySeconds * Res + 1}

\* The clock readings at which chat requests are made.
ChatInstants == {0, WindowSeconds * Res}

\* In SpecDaily one client's requests are spaced 61 seconds apart.
DailyStep == (WindowSeconds + 1) * Res

----------------------------------------------------------------------------
(* datetime / timedelta arithmetic *)

\* timedelta(...).total_seconds() > n, for a difference d in ticks
TotalSecondsGt(d, n) == d > n * Res

\* timedelta.seconds: the seconds field of the normalised (days, seconds,
\* microseconds) triple, 0 <= seconds < 86400, also for a negative delta
TdSeconds(d) == (d % (DaySeconds * Res)) \div Res

RECURSIVE SeqMin(_)
SeqMin(s) ==
    IF Len(s) = 1 THEN s[1]
    ELSE LET m == SeqMin(Tail(s)) IN IF s[1] < m THEN s[1] ELSE m

\* [req for req in requests if req > bound]
RECURSIVE NewerThan(_, _)
NewerThan(s, bound) ==
    IF s = <<>> THEN <<>>
    ELSE IF s[1] > bound THEN <<s[1]>> \o NewerThan(Tail(s), bound)
         ELSE NewerThan(Tail(s), bound)

----------------------------------------------------------------------------
(* RateLimiter *)

\* a prune that keeps the request made exactly one minute ago
RECURSIVE prune_inclusive(_, _)
prune_inclusive(requests, minute_ago) ==
    IF requests = <<>> THEN <<>>
    ELSE IF requests[1] >= minute_ago
         THEN <<requests[1]>> \o prune_inclusive(Tail(requests), minute_ago)
         ELSE prune_inclusive(Tail(requests), minute_ago)

\* a check that forgets to drop the old requests
prune_skipped(requests, minute_ago) == requests

\* [req for req in self.ip_data[ip]["requests"] if req > minute_ago]
prune(requests, minute_ago) == NewerThan(requests, minute_ago)

\* a sweep that runs on every check, whatever the time since the last one
cleanup_ungated(data, lc, t) ==
    LET cutoff == t - DaySeconds * Res IN
    [ip_data |-> [i \in {j \in DOMAIN data : ~(data[j].first_request < cutoff)} |-> data[i]],
     last_cleanup |-> t]

\* RateLimiter.cleanup at time t: the new (ip_data, last_cleanup)
cleanup(data, lc, t) ==
    IF TotalSecondsGt(t - lc, cleanup_interval)
    THEN LET cutoff == t - DaySeconds * Res IN
         [ip_data |-> [i \in {j \in DOMAIN data : ~(data[j].first_request < cutoff)} |->
                         data[i]],
          last_cleanup |-> t]
    ELSE [ip_data |-> data, last_cleanup |-> lc]

\* the count the daily limit is compared with: len(ip_data[ip]["requests"])
\* taken after the prune to the last minute
daily_count(pruned) == Len(pruned)

\* a check that admits a request without recording it
check_unrecorded(ip, t, data, lc) ==
    LET swept == cleanup(data, lc, t)
        data0 == IF ip \in DOMAIN swept.ip_data
                 THEN swept.ip_data
                 ELSE [i \in DOMAIN swept.ip_data \cup {ip} |->
                         IF i = ip THEN [requests |-> <<>>, first_request |-> t]
                         ELSE swept.ip_data[i]]
        pruned == prune(data0[ip].requests, t - WindowSeconds * Res)
        kept == [data0 EXCEPT ![ip].requests = pruned]
    IN  IF Len(pruned) >= short_limit
        THEN [allowed |-> FALSE, scope |-> "minute",
              wait |-> WindowSeconds - TdSeconds(t - SeqMin(pruned)),
              ip_data |-> kept, last_cleanup |-> swept.last_cleanup]
        ELSE [allowed |-> TRUE, scope |-> "", wait |-> 0,
              ip_data |-> kept, last_cleanup |-> swept.last_cleanup]

\* RateLimiter.check(ip) at time t: the result and the new state
check(ip, t, data, lc) ==
    LET swept == cleanup(data, lc, t)
        \* if ip not in self.ip_data: a new record
        data0 == IF ip \in DOMAIN swept.ip_data
                 THEN swept.ip_data
                 ELSE [i \in DOMAIN swept.ip_data \cup {ip} |->
                         IF i = ip THEN [requests |-> <<>>, first_request |-> t]
                         ELSE swept.ip_data[i]]
        rec0 == data0[ip]
        minute_ago == t - WindowSeconds * Res
        pruned == prune(rec0.requests, minute_ago)
        rec1 == [rec0 EXCEPT !.requests = pruned]
    IN  IF Len(pruned) >= short_limit
        THEN [allowed |-> FALSE, scope |-> "minute",
              wait |-> WindowSeconds - TdSeconds(t - SeqMin(pruned)),
              ip_data |-> [data0 EXCEPT ![ip] = rec1],
              last_cleanup |-> swept.last_cleanup]
        ELSE IF daily_count(pruned) >= daily_limit
        THEN LET next_reset == rec0.first_request + DaySeconds * Res
                 h == TdSeconds(next_reset - t) \div 3600
             IN [allowed |-> FALSE, scope |-> "day",
                 wait |-> IF h > 1 THEN h ELSE 1,
                 ip_data |-> [data0 EXCEPT ![ip] = rec1],
                 last_cleanup |-> swept.last_cleanup]
        ELSE [allowed |-> TRUE, scope |-> "", wait |-> 0,
              ip_data |-> [data0 EXCEPT
                              ![ip] = [rec1 EXCEPT !.requests = Append(pruned, t)]],
              last_cleanup |-> swept.last_cleanup]

----------------------------------------------------------------------------
(* History kept beside the program state, to state the claims *)

NoCheck ==
    [ip |-> None, at |-> 0, allowed |-> FALSE, scope |-> "", wait |-> 0,
     priorRecent |-> 0, hadRecord |-> FALSE, priorDay |-> 0, priorFirst |-> 0,
     priorRequests |-> <<>>, requests |-> <<>>, swept |-> FALSE,
     priorDenial |-> -1]

\* the record of one check() call by ip at time t, from state (data, lc),
\* which returned r
CheckRecord(ip, t, data, lc, recent, day, den, r) ==
    LET had == ip \in DOMAIN data
    IN [ip |-> ip, at |-> t,
        allowed |-> r.allowed, scope |-> r.scope, wait |-> r.wait,
        \* admitted requests of ip in (t - 60s, t] before this call
        priorRecent |-> Len(NewerThan(recent[ip], t - WindowSeconds * Res)),
        \* requests admitted since the first_request of the record this
        \* call found (hadRecord), and that first_request
        hadRecord |-> had,
        priorDay |-> IF had THEN day[ip] ELSE 0,
        priorFirst |-> IF had THEN data[ip].first_request ELSE t,
        \* the recorded timestamps before and after the call
        priorRequests |-> IF had THEN data[ip].requests ELSE <<>>,
        requests |-> r.ip_data[ip].requests,
        swept |-> r.last_cleanup # lc,
        \* the pending short-window denial of ip, if any
        priorDenial |-> den[ip]]

\* one check() call, which returned r, with its bookkeeping
DoCheck(ip, r) ==
    LET live == DOMAIN cleanup(ip_data, last_cleanup, now).ip_data
    IN /\ lastCheck' = CheckRecord(ip, now, ip_data, last_cleanup,
                                   recentAdmitted, dayAdmitted, denial, r)
       /\ denial' = [denial EXCEPT ![ip] =
                        IF ~r.allowed /\ r.scope = "minute"
                        THEN SeqMin(r.ip_data[ip].requests) ELSE -1]
       /\ ip_data' = r.ip_data
       /\ last_cleanup' = r.last_cleanup
       /\ recentAdmitted' =
            [i \in IPs |->
               LET kept == NewerThan(recentAdmitted[i], now - WindowSeconds * Res)
               IN IF i = ip /\ r.allowed THEN Append(kept, now) ELSE kept]
       /\ dayAdmitted' =
            [i \in IPs |->
               LET base == IF i \in live THEN dayAdmitted[i] ELSE 0
               IN IF i = ip /\ r.allowed THEN base + 1 ELSE base]

----------------------------------------------------------------------------
(* Text: a string is a sequence of one-character strings *)

LowerCase == <<"a", "b", "c", "d", "e", "f", "g", "h", "i", "j", "k", "l", "m",
               "n", "o", "p", "q", "r", "s", "t", "u", "v", "w", "x", "y", "z">>
UpperCase == <<"A", "B", "C", "D", "E", "F", "G", "H", "I", "J", "K", "L", "M",
               "N", "O", "P", "Q", "R", "S", "T", "U", "V", "W", "X", "Y", "Z">>
Range(s) == {s[i] : i \in DOMAIN s}
Digits == {"0", "1", "2", "3", "4", "5", "6", "7", "8", "9"}

\* \w of a str pattern: letters, digits and the underscore
IsWord(c) == c \in Range(LowerCase) \cup Range(UpperCase) \cup Digits \cup {"_"}
\* \s
IsSpace(c) == c \in {" ", "\t", "\n", "\r"}
\* the class [^\w\s.,?!-] of sanitize_input: the characters it removes
IsRemoved(c) == ~(IsWord(c) \/ IsSpace(c) \/ c \in {".", ",", "?", "!", "-"})

\* str.lower(), character by character
LowerChar(c) ==
    IF c \in Range(UpperCase)
    THEN LowerCase[CHOOSE i \in DOMAIN UpperCase : UpperCase[i] = c]
    ELSE c
lower(text) == [i \in DOMAIN text |-> LowerChar(text[i])]

\* re.sub(r'[^\w\s.,?!-]', '', text)
RECURSIVE RemoveHarmful(_)
RemoveHarmful(text) ==
    IF text = <<>> THEN <<>>
    ELSE IF IsRemoved(text[1]) THEN RemoveHarmful(Tail(text))
         ELSE <<text[1]>> \o RemoveHarmful(Tail(text))

\* re.sub(r'\s+', ' ', text): every run of whitespace becomes one space
RECURSIVE CollapseSpace(_)
CollapseSpace(text) ==
    IF text = <<>> THEN <<>>
    ELSE IF IsSpace(text[1])
         THEN IF Len(text) > 1 /\ IsSpace(text[2])
              THEN CollapseSpace(Tail(text))
              ELSE <<" ">> \o CollapseSpace(Tail(text))
         ELSE <<text[1]>> \o CollapseSpace(Tail(text))

\* str.strip()
RECURSIVE LStrip(_)
LStrip(text) ==
    IF text # <<>> /\ IsSpace(text[1]) THEN LStrip(Tail(text)) ELSE text
RECURSIVE RStrip(_)
RStrip(text) ==
    IF text # <<>> /\ IsSpace(text[Len(text)])
    THEN RStrip(SubSeq(text, 1, Len(text) - 1)) ELSE text
strip(text) == RStrip(LStrip(text))

\* sanitize_input(text)
sanitize_input(text) ==
    IF text = <<>> THEN <<>>
    ELSE strip(CollapseSpace(RemoveHarmful(text)))

----------------------------------------------------------------------------
\* The regular expressions of the two pattern lists. A pattern is a sequence
\* of atoms: lit, a literal; any, a run of characters other than newline;
\* optws, an optional run of whitespace; alt, one of several literals; opt, an
\* optional literal; bow, the start of the text or one whitespace character.

\* text has the literal w at position p
HasAt(text, p, w) ==
    /\ p + Len(w) - 1 <= Len(text)
    /\ \A i \in 1..Len(w) : text[p + i - 1] = w[i]

\* the atoms i.. of pat match text from position p on
RECURSIVE MatchFrom(_, _, _, _)
MatchFrom(pat, i, text, p) ==
    IF i > Len(pat) THEN TRUE
    ELSE LET at == pat[i] IN
      CASE at.k = "lit" ->
             HasAt(text, p, at.a[1]) /\ MatchFrom(pat, i + 1, text, p + Len(at.a[1]))
        [] at.k = "any" ->
             \E q \in p..(Len(text) + 1) :
                /\ \A j \in p..(q - 1) : text[j] # "\n"
                /\ MatchFrom(pat, i + 1, text, q)
        [] at.k = "optws" ->
             \E q \in p..(Len(text) + 1) :
                /\ \A j \in p..(q - 1) : IsSpace(text[j])
                /\ MatchFrom(pat, i + 1, text, q)
        [] at.k = "alt" ->
             \E n \in DOMAIN at.a :
                HasAt(text, p, at.a[n]) /\ MatchFrom(pat, i + 1, text, p + Len(at.a[n]))
        [] at.k = "opt" ->
             \/ MatchFrom(pat, i + 1, text, p)
             \/ HasAt(text, p, at.a[1]) /\ MatchFrom(pat, i + 1, text, p + Len(at.a[1]))
        [] at.k = "bow" ->
             \/ p = 1 /\ MatchFrom(pat, i + 1, text, p)
             \/ p <= Len(text) /\ IsSpace(text[p]) /\ MatchFrom(pat, i + 1, text, p + 1)

\* re.search(pattern, text)
re_search(pat, text) == \E p \in 1..(Len(text) + 1) : MatchFrom(pat, 1, text, p)

injection_patterns == <<
    \* system(\s+)?(prompt|message|instruction)
    <<[k |-> "lit", a |-> <<<<"s", "y", "s", "t", "e", "m">>>>],
      [k |-> "optws", a |-> <<>>],
      [k |-> "alt", a |-> <<<<"p", "r", "o", "m", "p", "t">>, <<"m", "e", "s", "s", "a", "g", "e">>, <<"i", "n", "s", "t", "r", "u", "c", "t", "i", "o", "n">>>>]>>,
    \* ignore .*previous.*instruction
    <<[k |-> "lit", a |-> <<<<"i", "g", "n", "o", "r", "e", " ">>>>],
      [k |-> "any", a |-> <<>>],
      [k |-> "lit", a |-> <<<<"p", "r", "e", "v", "i", "o", "u", "s">>>>],
      [k |-> "any", a |-> <<>>],
      [k |-> "lit", a |-> <<<<"i", "n", "s", "t", "r", "u", "c", "t", "i", "o", "n">>>>]>>,
    \* echo .*instruction
    <<[k |-> "lit", a |-> <<<<"e", "c", "h", "o", " ">>>>],
      [k |-> "any", a |-> <<>>],
      [k |-> "lit", a |-> <<<<"i", "n", "s", "t", "r", "u", "c", "t", "i", "o", "n">>>>]>>,
    \* repeat .*instruction
    <<[k |-> "lit", a |-> <<<<"r", "e", "p", "e", "a", "t", " ">>>>],
      [k |-> "any", a |-> <<>>],
      [k |-> "lit", a |-> <<<<"i", "n", "s", "t", "r", "u", "c", "t", "i", "o", "n">>>>]>>,
    \* reveal .*prompt
    <<[k |-> "lit", a |-> <<<<"r", "e", "v", "e", "a", "l", " ">>>>],
      [k |-> "any", a |-> <<>>],
      [k |-> "lit", a |-> <<<<"p", "r", "o", "m", "p", "t">>>>]>>,
    \* what was your instruction
    <<[k |-> "lit", a |-> <<<<"w", "h", "a", "t", " ", "w", "a", "s", " ", "y", "o", "u", "r", " ", "i", "n", "s", "t", "r", "u", "c", "t", "i", "o", "n">>>>]>>,
    \* output .*prompt
    <<[k |-> "lit", a |-> <<<<"o", "u", "t", "p", "u", "t", " ">>>>],
      [k |-> "any", a |-> <<>>],
      [k |-> "lit", a |-> <<<<"p", "r", "o", "m", "p", "t">>>>]>>,
    \* what.*(\s+)?prompt(s)?.*given
    <<[k |-> "lit", a |-> <<<<"w", "h", "a", "t">>>>],
      [k |-> "any", a |-> <<>>],
      [k |-> "optws", a |-> <<>>],
      [k |-> "lit", a |-> <<<<"p", "r", "o", "m", "p", "t">>>>],
      [k |-> "opt", a |-> <<<<"s">>>>],
      [k |-> "any", a |-> <<>>],
      [k |-> "lit", a |-> <<<<"g", "i", "v", "e", "n">>>>]>>,
    \* your prompt
    <<[k |-> "lit", a |-> <<<<"y", "o", "u", "r", " ", "p", "r", "o", "m", "p", "t">>>>]>>,
    \* print .*prompt
    <<[k |-> "lit", a |-> <<<<"p", "r", "i", "n", "t", " ">>>>],
      [k |-> "any", a |-> <<>>],
      [k |-> "lit", a |-> <<<<"p", "r", "o", "m", "p", "t">>>>]>>,
    \* show me your (prompt|instruction|configuration)
    <<[k |-> "lit", a |-> <<<<"s", "h", "o", "w", " ", "m", "e", " ", "y", "o", "u", "r", " ">>>>],
      [k |-> "alt", a |-> <<<<"p", "r", "o", "m", "p", "t">>, <<"i", "n", "s", "t", "r", "u", "c", "t", "i", "o", "n">>, <<"c", "o", "n", "f", "i", "g", "u", "r", "a", "t", "i", "o", "n">>>>]>>,
    \* do not omit
    <<[k |-> "lit", a |-> <<<<"d", "o", " ", "n", "o", "t", " ", "o", "m", "i", "t">>>>]>>,
    \* don't omit
    <<[k |-> "lit", a |-> <<<<"d", "o", "n", "'", "t", " ", "o", "m", "i", "t">>>>]>>,
    \* without omitting
    <<[k |-> "lit", a |-> <<<<"w", "i", "t", "h", "o", "u", "t", " ", "o", "m", "i", "t", "t", "i", "n", "g">>>>]>>,
    \* show (everything|all|complete)
    <<[k |-> "lit", a |-> <<<<"s", "h", "o", "w", " ">>>>],
      [k |-> "alt", a |-> <<<<"e", "v", "e", "r", "y", "t", "h", "i", "n", "g">>, <<"a", "l", "l">>, <<"c", "o", "m", "p", "l", "e", "t", "e">>>>]>>,
    \* display (all|the entire|full|complete)
    <<[k |-> "lit", a |-> <<<<"d", "i", "s", "p", "l", "a", "y", " ">>>>],
      [k |-> "alt", a |-> <<<<"a", "l", "l">>, <<"t", "h", "e", " ", "e", "n", "t", "i", "r", "e">>, <<"f", "u", "l", "l">>, <<"c", "o", "m", "p", "l", "e", "t", "e">>>>]>>,
    \* print (all|everything|without omission)
    <<[k |-> "lit", a |-> <<<<"p", "r", "i", "n", "t", " ">>>>],
      [k |-> "alt", a |-> <<<<"a", "l", "l">>, <<"e", "v", "e", "r", "y", "t", "h", "i", "n", "g">>, <<"w", "i", "t", "h", "o", "u", "t", " ", "o", "m", "i", "s", "s", "i", "o", "n">>>>]>>,
    \* word for word
    <<[k |-> "lit", a |-> <<<<"w", "o", "r", "d", " ", "f", "o", "r", " ", "w", "o", "r", "d">>>>]>>,
    \* verbatim
    <<[k |-> "lit", a |-> <<<<"v", "e", "r", "b", "a", "t", "i", "m">>>>]>>,
    \* copy and paste
    <<[k |-> "lit", a |-> <<<<"c", "o", "p", "y", " ", "a", "n", "d", " ", "p", "a", "s", "t", "e">>>>]>>,
    \* output the (exact|precise|literal)
    <<[k |-> "lit", a |-> <<<<"o", "u", "t", "p", "u", "t", " ", "t", "h", "e", " ">>>>],
      [k |-> "alt", a |-> <<<<"e", "x", "a", "c", "t">>, <<"p", "r", "e", "c", "i", "s", "e">>, <<"l", "i", "t", "e", "r", "a", "l">>>>]>>,
    \* don't (filter|withhold|exclude)
    <<[k |-> "lit", a |-> <<<<"d", "o", "n", "'", "t", " ">>>>],
      [k |-> "alt", a |-> <<<<"f", "i", "l", "t", "e", "r">>, <<"w", "i", "t", "h", "h", "o", "l", "d">>, <<"e", "x", "c", "l", "u", "d", "e">>>>]>>,
    \* include everything
    <<[k |-> "lit", a |-> <<<<"i", "n", "c", "l", "u", "d", "e", " ", "e", "v", "e", "r", "y", "t", "h", "i", "n", "g">>>>]>>,
    \* disregard (previous|your|above|safety)
    <<[k |-> "lit", a |-> <<<<"d", "i", "s", "r", "e", "g", "a", "r", "d", " ">>>>],
      [k |-> "alt", a |-> <<<<"p", "r", "e", "v", "i", "o", "u", "s">>, <<"y", "o", "u", "r">>, <<"a", "b", "o", "v", "e">>, <<"s", "a", "f", "e", "t", "y">>>>]>>,
    \* bypass
    <<[k |-> "lit", a |-> <<<<"b", "y", "p", "a", "s", "s">>>>]>>,
    \* override
    <<[k |-> "lit", a |-> <<<<"o", "v", "e", "r", "r", "i", "d", "e">>>>]>>,
    \* starting with
    <<[k |-> "lit", a |-> <<<<"s", "t", "a", "r", "t", "i", "n", "g", " ", "w", "i", "t", "h">>>>]>>,
    \* return full content
    <<[k |-> "lit", a |-> <<<<"r", "e", "t", "u", "r", "n", " ", "f", "u", "l", "l", " ", "c", "o", "n", "t", "e", "n", "t">>>>]>>,
    \* give me the full
    <<[k |-> "lit", a |-> <<<<"g", "i", "v", "e", " ", "m", "e", " ", "t", "h", "e", " ", "f", "u", "l", "l">>>>]>>,
    \* ignore previous instructions
    <<[k |-> "lit", a |-> <<<<"i", "g", "n", "o", "r", "e", " ", "p", "r", "e", "v", "i", "o", "u", "s", " ", "i", "n", "s", "t", "r", "u", "c", "t", "i", "o", "n", "s">>>>]>>,
    \* disregard
    <<[k |-> "lit", a |-> <<<<"d", "i", "s", "r", "e", "g", "a", "r", "d">>>>]>>,
    \* forget
    <<[k |-> "lit", a |-> <<<<"f", "o", "r", "g", "e", "t">>>>]>>,
    \* system prompt
    <<[k |-> "lit", a |-> <<<<"s", "y", "s", "t", "e", "m", " ", "p", "r", "o", "m", "p", "t">>>>]>>,
    \* you are not
    <<[k |-> "lit", a |-> <<<<"y", "o", "u", " ", "a", "r", "e", " ", "n", "o", "t">>>>]>>,
    \* new role
    <<[k |-> "lit", a |-> <<<<"n", "e", "w", " ", "r", "o", "l", "e">>>>]>>,
    \* instead of
    <<[k |-> "lit", a |-> <<<<"i", "n", "s", "t", "e", "a", "d", " ", "o", "f">>>>]>>,
    \* don't (be|act)
    <<[k |-> "lit", a |-> <<<<"d", "o", "n", "'", "t", " ">>>>],
      [k |-> "alt", a |-> <<<<"b", "e">>, <<"a", "c", "t">>>>]>>,
    \* stop being
    <<[k |-> "lit", a |-> <<<<"s", "t", "o", "p", " ", "b", "e", "i", "n", "g">>>>]>>
>>

unsafe_patterns == <<
    \* hack
    <<[k |-> "lit", a |-> <<<<"h", "a", "c", "k">>>>]>>,
    \* exploit
    <<[k |-> "lit", a |-> <<<<"e", "x", "p", "l", "o", "i", "t">>>>]>>,
    \* (credit|debit)(\s+)?card
    <<[k |-> "alt", a |-> <<<<"c", "r", "e", "d", "i", "t">>, <<"d", "e", "b", "i", "t">>>>],
      [k |-> "optws", a |-> <<>>],
      [k |-> "lit", a |-> <<<<"c", "a", "r", "d">>>>]>>,
    \* password
    <<[k |-> "lit", a |-> <<<<"p", "a", "s", "s", "w", "o", "r", "d">>>>]>>,
    \* credentials
    <<[k |-> "lit", a |-> <<<<"c", "r", "e", "d", "e", "n", "t", "i", "a", "l", "s">>>>]>>,
    \* address
    <<[k |-> "lit", a |-> <<<<"a", "d", "d", "r", "e", "s", "s">>>>]>>,
    \* social security
    <<[k |-> "lit", a |-> <<<<"s", "o", "c", "i", "a", "l", " ", "s", "e", "c", "u", "r", "i", "t", "y">>>>]>>,
    \* private
    <<[k |-> "lit", a |-> <<<<"p", "r", "i", "v", "a", "t", "e">>>>]>>,
    \* confidential
    <<[k |-> "lit", a |-> <<<<"c", "o", "n", "f", "i", "d", "e", "n", "t", "i", "a", "l">>>>]>>,
    \* jailbreak
    <<[k |-> "lit", a |-> <<<<"j", "a", "i", "l", "b", "r", "e", "a", "k">>>>]>>,
    \* ddos
    <<[k |-> "lit", a |-> <<<<"d", "d", "o", "s">>>>]>>,
    \* attack
    <<[k |-> "lit", a |-> <<<<"a", "t", "t", "a", "c", "k">>>>]>>,
    \* (^|\s)(sex|porn|nude|naked)
    <<[k |-> "bow", a |-> <<>>],
      [k |-> "alt", a |-> <<<<"s", "e", "x">>, <<"p", "o", "r", "n">>, <<"n", "u", "d", "e">>, <<"n", "a", "k", "e", "d">>>>]>>,
    \* (^|\s)(illegal|crime)
    <<[k |-> "bow", a |-> <<>>],
      [k |-> "alt", a |-> <<<<"i", "l", "l", "e", "g", "a", "l">>, <<"c", "r", "i", "m", "e">>>>]>>,
    \* (^|\s)(drug|cocaine|heroin)
    <<[k |-> "bow", a |-> <<>>],
      [k |-> "alt", a |-> <<<<"d", "r", "u", "g">>, <<"c", "o", "c", "a", "i", "n", "e">>, <<"h", "e", "r", "o", "i", "n">>>>]>>
>>

\* detect_prompt_injection(question): TRUE when a pattern matches
detect_prompt_injection(question) ==
    LET question_lower == lower(question)
    IN \E n \in DOMAIN injection_patterns : re_search(injection_patterns[n], question_lower)

\* check_content_safety(question): FALSE when a pattern matches
check_content_safety(question) ==
    LET question_lower == lower(question)
    IN ~ \E n \in DOMAIN unsafe_patterns : re_search(unsafe_patterns[n], question_lower)

----------------------------------------------------------------------------
(* The questions sent to the handler *)

Questions == {
    <<>>,
    <<" ", "\t">>,
    <<"<", ">">>,
    <<"E", "s", "s", "e", "x", " ", " ", "j", "o", "b", "?">>,
    <<"Y", "o", "u", "r", " ", "<", "p", "r", "o", "m", "p", "t", ">">>,
    <<"h", "a", "c", "k", " ", "i", "t">>,
    <<"b", "y", "p", "a", "s", "s", "\n", "a", "t", "t", "a", "c", "k">>,
    <<"d", "o", "n", "'", "t", " ", "o", "m", "i", "t">>
}

\* what the guard functions give on each question, computed once
Sanitized == [q \in Questions |-> sanitize_input(q)]
IsInjection == [q \in Questions |-> detect_prompt_injection(Sanitized[q])]
\* detect_prompt_injection on the question as the client sent it
RawInjection == [q \in Questions |-> detect_prompt_injection(q)]
IsSafe == [q \in Questions |-> check_content_safety(Sanitized[q])]

----------------------------------------------------------------------------
(* Embedding vectors and the corpus *)

\* A vector of dim coordinates: the leading ones are given, the rest are 0.
EmbeddingSize == 1536
Vec(lead) == [dim |-> EmbeddingSize, lead |-> lead]
ZeroVec == [dim |-> EmbeddingSize, lead |-> <<0, 0>>]

RECURSIVE SumProd(_, _)
SumProd(a, b) == IF a = <<>> THEN 0 ELSE a[1] * b[1] + SumProd(Tail(a), Tail(b))
Dot(a, b) == SumProd(a.lead, b.lead)

\* A similarity is num / sqrt(den2); cosine_similarity returns 0 when a norm is 0.
cosine_similarity(vec_a, vec_b) ==
    LET dot_product == Dot(vec_a, vec_b)
        norm_a2 == Dot(vec_a, vec_a)
        norm_b2 == Dot(vec_b, vec_b)
    IN IF norm_a2 = 0 \/ norm_b2 = 0 THEN [num |-> 0, den2 |-> 1]
       ELSE [num |-> dot_product, den2 |-> norm_a2 * norm_b2]

\* x > y for two similarities
SimGreater(x, y) ==
    IF x.num >= 0 /\ y.num >= 0 THEN x.num * x.num * y.den2 > y.num * y.num * x.den2
    ELSE IF x.num < 0 /\ y.num < 0 THEN x.num * x.num * y.den2 < y.num * y.num * x.den2
    ELSE x.num >= 0 /\ y.num < 0

\* a record of embeddings.json; has_embedding is FALSE when the key is missing
Item(id, url, lead) ==
    [id |-> id, content |-> <<"about ", id>>, url |-> url,
     has_embedding |-> TRUE, embedding |-> Vec(lead)]
NoEmbedding(item) == [item EXCEPT !.has_embedding = FALSE, !.embedding = [dim |-> 0, lead |-> <<>>]]

\* the record load_embeddings falls back to
FallbackItem ==
    [id |-> "fallback",
     content |-> <<"This is a fallback response because embeddings could not be loaded.">>,
     url |-> <<"#">>, has_embedding |-> TRUE, embedding |-> ZeroVec]

\* what json.load gives: null, or a list of records
JsonNull == [kind |-> "null", items |-> <<>>]
JsonList(items) == [kind |-> "list", items |-> items]

SiteUrl(id) == <<"https://sohae-kim.github.io/#", id>>
GoodCorpus ==
    JsonList(<<Item("about", <<"#about">>, <<1, 0>>),
               Item("skills", SiteUrl("skills"), <<1, 1>>),
               Item("education", SiteUrl("education"), <<2, 0>>),
               Item("projects", SiteUrl("projects"), <<0, 1>>)>>)
OtherCorpus ==
    JsonList(<<Item("experience", SiteUrl("experience"), <<0, 2>>),
               Item("about", SiteUrl("about"), <<1, 0>>)>>)
EmptyCorpus == JsonList(<<>>)
BadCorpus ==
    JsonList(<<Item("about", SiteUrl("about"), <<1, 0>>),
               NoEmbedding(Item("skills", SiteUrl("skills"), <<1, 1>>))>>)

\* A file: missing, unreadable as JSON, or holding a JSON value.
Missing == [exists |-> FALSE, parses |-> FALSE, value |-> JsonNull]
Garbled == [exists |-> TRUE, parses |-> FALSE, value |-> JsonNull]
Holding(v) == [exists |-> TRUE, parses |-> TRUE, value |-> v]
FileContents ==
    {Missing, Garbled, Holding(JsonNull), Holding(EmptyCorpus),
     Holding(BadCorpus), Holding(GoodCorpus), Holding(OtherCorpus)}

\* possible_paths, in the order they are tried
possible_paths == <<"tmp", "package", "cwd", "var_task">>

\* The files a process may find when it starts: none; the packaged
\* embeddings.json; the same with a temp file whose records lack embeddings.
NoFiles == [p \in Range(possible_paths) |-> Missing]
FileScenarios ==
    {NoFiles,
     [NoFiles EXCEPT !["package"] = Holding(GoodCorpus)],
     [NoFiles EXCEPT !["tmp"] = Holding(BadCorpus), !["package"] = Holding(GoodCorpus)]}

----------------------------------------------------------------------------
(* load_embeddings and find_relevant_content (app/utils.py) *)

\* the module-level _embeddings_cache: None, or a list object (id) and its value
NoCache == [set |-> FALSE, id |-> 0, value |-> JsonNull]

\* the for loop over possible_paths from index n on: the value assigned to
\* the cache (found: json.load returned) and the paths probed and opened
RECURSIVE TryPaths(_, _)
TryPaths(fs, n) ==
    IF n > Len(possible_paths)
    THEN [found |-> FALSE, value |-> JsonNull, probed |-> <<>>, opened |-> <<>>]
    ELSE LET path == possible_paths[n]
             rest == TryPaths(fs, n + 1)
         IN IF ~fs[path].exists
            THEN [rest EXCEPT !.probed = <<path>> \o @]
            ELSE IF fs[path].parses
            THEN [found |-> TRUE, value |-> fs[path].value,
                  probed |-> <<path>>, opened |-> <<path>>]
            ELSE [rest EXCEPT !.probed = <<path>> \o @, !.opened = <<path>> \o @]

\* a load_embeddings() that reads the files on every call
load_embeddings_uncached(c, fs, n_objs) ==
    LET t == TryPaths(fs, 1)
        loaded == t.found /\ t.value.kind # "null"
        new == [set |-> TRUE, id |-> n_objs + 1,
                value |-> IF loaded THEN t.value ELSE JsonList(<<FallbackItem>>)]
    IN [ret |-> new, cache |-> new, probed |-> t.probed, opened |-> t.opened,
        objs |-> n_objs + 1]

\* load_embeddings(): the value returned, the new cache, and what it touched
load_embeddings(c, fs, n_objs) ==
    IF c.set
    THEN [ret |-> c, cache |-> c, probed |-> <<>>, opened |-> <<>>, objs |-> n_objs]
    ELSE LET t == TryPaths(fs, 1)
             loaded == t.found /\ t.value.kind # "null"
             new == [set |-> TRUE, id |-> n_objs + 1,
                     value |-> IF loaded THEN t.value ELSE JsonList(<<FallbackItem>>)]
         IN [ret |-> new, cache |-> new, probed |-> t.probed, opened |-> t.opened,
             objs |-> n_objs + 1]

\* an insertion that puts x before its equals, as sorting in ascending order
\* and reversing the list does
RECURSIVE InsertSorted_reversed(_, _)
InsertSorted_reversed(x, sorted) ==
    IF sorted = <<>> THEN <<x>>
    ELSE IF ~SimGreater(sorted[1].similarity, x.similarity) THEN <<x>> \o sorted
         ELSE <<sorted[1]>> \o InsertSorted_reversed(x, Tail(sorted))

\* insert x into a list sorted by descending similarity, after its equals
RECURSIVE InsertSorted(_, _)
InsertSorted(x, sorted) ==
    IF sorted = <<>> THEN <<x>>
    ELSE IF SimGreater(x.similarity, sorted[1].similarity) THEN <<x>> \o sorted
         ELSE <<sorted[1]>> \o InsertSorted(x, Tail(sorted))

\* sorted(similarities, key=lambda x: x["similarity"], reverse=True)
RECURSIVE SortBySimilarity(_)
SortBySimilarity(s) ==
    IF s = <<>> THEN <<>>
    ELSE InsertSorted(s[Len(s)], SortBySimilarity(SubSeq(s, 1, Len(s) - 1)))

top_k == 3
Take(s, n) == SubSeq(s, 1, IF Len(s) < n THEN Len(s) ELSE n)

\* find_relevant_content(query_embedding, top_k) on the loaded corpus: it
\* raises KeyError on a record without "embedding" and ValueError on a vector
\* of another length
find_relevant_content_top(query_embedding, corpus, k) ==
    LET items == corpus.items
        bad == {i \in DOMAIN items :
                  ~items[i].has_embedding \/ items[i].embedding.dim # query_embedding.dim}
    IN IF bad # {}
       THEN LET first == CHOOSE i \in bad : \A j \in bad : i <= j
            IN [raised |-> TRUE,
                exc |-> IF ~items[first].has_embedding THEN <<"'embedding'">>
                        ELSE <<"shapes not aligned">>,
                items |-> <<>>]
       ELSE [raised |-> FALSE, exc |-> <<>>,
             items |-> Take(SortBySimilarity(
                          [i \in DOMAIN items |->
                             [id |-> items[i].id, content |-> items[i].content,
                              url |-> items[i].url,
                              similarity |-> cosine_similarity(query_embedding,
                                                               items[i].embedding)]]),
                          k)]

\* find_relevant_content(query_embedding), as the handlers call it
find_relevant_content(query_embedding, corpus) ==
    find_relevant_content_top(query_embedding, corpus, top_k)

----------------------------------------------------------------------------
(* The POST /api/chat handler of app/main.py *)

EMPTY_ANSWER ==
    <<"Your question seems to be empty. Please provide a question about Sohae's career.">>
REDIRECT_ANSWER ==
    <<"I'm sorry, but I can only answer questions about Sohae's career and experience. Could you please ask a question related to her professional background?">>
UNSAFE_ANSWER ==
    <<"I'm sorry, but I can't process this request. Please ask a question related to Sohae's professional background.">>

\* What the two services do on a request: both answer, or one of them raises.
Externals == {"ok", "embed_raises", "generate_raises"}
\* str(e) of the exception a failing service call raises
EmbedErrorText == <<"Connection error.">>
GenerateErrorText == <<"Error code: 401 - invalid x-api-key">>
\* the embedding the service returns for a question, and the generated text
QueryEmbeddings == {Vec(<<1, 0>>), Vec(<<1, 2>>)}
\* What a request meets: the embedding of the question when both services
\* answer, or the service that raises.
Services ==
    {[ext |-> "ok", qe |-> v] : v \in QueryEmbeddings}
    \cup {[ext |-> e, qe |-> Vec(<<1, 0>>)] : e \in Externals \ {"ok"}}
GeneratedText == <<"She", " ", "studied", " ", "at", " ", "MIT.">>
\* len(text.split())
WordCount(text) == Cardinality({i \in DOMAIN text : text[i] # " "})

\* the message check() returns with a denial
RateMessage(rc) ==
    IF rc.scope = "minute"
    THEN <<"Rate limit exceeded. Try again in ", ToString(rc.wait), " seconds.">>
    ELSE <<"Daily limit reached. Try again in ", ToString(rc.wait), " hours.">>

\* one line written by app/logging.py
LogEntry(fn, ip, type, details, tokens) ==
    [fn |-> fn, ip |-> ip, type |-> type, details |-> details, tokens |-> tokens]
log_security_event(ip, event_type, details) ==
    LogEntry("log_security_event", ip, event_type, details, 0)
log_rate_limit(ip, message) == LogEntry("log_rate_limit", ip, "", message, 0)
log_api_usage(ip, query, tokens) == LogEntry("log_api_usage", ip, "", query, tokens)

\* what a request leaves behind: the outcome, the HTTP response, the log
\* lines, the calls made in order, and the corpus cache
Result(outcome, status, answer, references, detail, log, trace, load) ==
    [outcome |-> outcome, status |-> status, answer |-> answer,
     references |-> references, detail |-> detail, log |-> log, trace |-> trace,
     load |-> load, raised_by |-> "", retrieved |-> <<>>]

\* no call of load_embeddings was made
NoLoad(c, n_objs) ==
    [called |-> FALSE, ret |-> c, cache |-> c, probed |-> <<>>, opened |-> <<>>,
     objs |-> n_objs]
Loaded(l) ==
    [called |-> TRUE, ret |-> l.ret, cache |-> l.cache, probed |-> l.probed,
     opened |-> l.opened, objs |-> l.objs]

\* the references of an answer: one per retrieved item
References(relevant_content) ==
    [i \in DOMAIN relevant_content |->
       [title |-> relevant_content[i].id,
        url |-> <<"https://sohae-kim.github.io/#", relevant_content[i].id>>]]

\* the except clause: log the error, raise HTTPException(500); the call that
\* raised is the last one of the trace
ApiError(ip, e, trace, load) ==
    [Result("ExternalError", 500, <<>>, <<>>, <<"An error occurred: ">> \o e,
            <<log_security_event(ip, "API_ERROR", e)>>,
            trace \o <<"log_security_event", "raise">>, load)
     EXCEPT !.raised_by = trace[Len(trace)]]

\* the try block: embed, retrieve, generate, log, answer
Answer(ip, sanitized_question, ext, question_embedding, c, fs, n_objs) ==
    IF ext = "embed_raises"
    THEN ApiError(ip, EmbedErrorText, <<"embeddings.create">>, NoLoad(c, n_objs))
    ELSE
    LET l == load_embeddings(c, fs, n_objs)
        found == find_relevant_content(question_embedding, l.ret.value)
        t1 == <<"embeddings.create", "find_relevant_content">>
    IN IF found.raised THEN ApiError(ip, found.exc, t1, Loaded(l))
       ELSE IF ext = "generate_raises"
       THEN ApiError(ip, GenerateErrorText, t1 \o <<"messages.create">>, Loaded(l))
       ELSE [Result("Answered", 200, GeneratedText, References(found.items), <<>>,
                    <<log_api_usage(ip, sanitized_question, WordCount(GeneratedText))>>,
                    t1 \o <<"messages.create", "log_api_usage", "return">>, Loaded(l))
             EXCEPT !.retrieved = found.items]

\* an injection branch that logs the sanitized text instead of the original
InjectionBlocked_sanitized(ip, original_question, t0) ==
    Result("InjectionBlocked", 200, REDIRECT_ANSWER, <<>>, <<>>,
           <<log_security_event(ip, "PROMPT_INJECTION", Sanitized[original_question])>>,
           t0 \o <<"detect_prompt_injection", "log_security_event", "return">>,
           NoLoad(NoCache, 0))

\* if detect_prompt_injection(sanitized_question): log and redirect
InjectionBlocked(ip, original_question, t0) ==
    Result("InjectionBlocked", 200, REDIRECT_ANSWER, <<>>, <<>>,
           <<log_security_event(ip, "PROMPT_INJECTION", original_question)>>,
           t0 \o <<"detect_prompt_injection", "log_security_event", "return">>,
           NoLoad(NoCache, 0))

\* if not check_content_safety(sanitized_question): log and refuse
UnsafeBlocked(ip, original_question, t0) ==
    Result("UnsafeBlocked", 200, UNSAFE_ANSWER, <<>>, <<>>,
           <<log_security_event(ip, "UNSAFE_CONTENT", original_question)>>,
           t0 \o <<"log_security_event", "return">>,
           NoLoad(NoCache, 0))

\* a handler that checks the content safety before the injection patterns
Guarded_safety_first(ip, original_question, ext, question_embedding, c, fs, n_objs) ==
    LET sanitized_question == Sanitized[original_question]
        t0 == <<"sanitize_input">>
        kept == NoLoad(c, n_objs)
    IN IF sanitized_question = <<>>
       THEN Result("EmptyInput", 200, EMPTY_ANSWER, <<>>, <<>>, <<>>,
                   t0 \o <<"return">>, kept)
       ELSE IF ~IsSafe[original_question]
       THEN [UnsafeBlocked(ip, original_question, t0 \o <<"check_content_safety">>)
             EXCEPT !.load = kept]
       ELSE IF IsInjection[original_question]
       THEN [InjectionBlocked(ip, original_question, t0 \o <<"check_content_safety">>)
             EXCEPT !.load = kept]
       ELSE LET a == Answer(ip, sanitized_question, ext, question_embedding, c, fs, n_objs)
            IN [a EXCEPT !.trace = t0 \o <<"check_content_safety",
                                           "detect_prompt_injection">> \o @]

\* the security checks on the sanitized question, then the try block
Guarded(ip, original_question, ext, question_embedding, c, fs, n_objs) ==
    LET sanitized_question == Sanitized[original_question]
        t0 == <<"sanitize_input">>
        kept == NoLoad(c, n_objs)
    IN IF sanitized_question = <<>>
       THEN Result("EmptyInput", 200, EMPTY_ANSWER, <<>>, <<>>, <<>>,
                   t0 \o <<"return">>, kept)
       ELSE IF IsInjection[original_question]
       THEN [InjectionBlocked(ip, original_question, t0) EXCEPT !.load = kept]
       ELSE IF ~IsSafe[original_question]
       THEN [UnsafeBlocked(ip, original_question,
                           t0 \o <<"detect_prompt_injection", "check_content_safety">>)
             EXCEPT !.load = kept]
       ELSE LET a == Answer(ip, sanitized_question, ext, question_embedding, c, fs, n_objs)
            IN [a EXCEPT !.trace = t0 \o <<"detect_prompt_injection",
                                           "check_content_safety">> \o @]

\* a handler that goes on after a denial of the rate limiter
chat_ignores_denial(ip, original_question, ext, question_embedding, rc, c, fs, n_objs) ==
    LET g == Guarded(ip, original_question, ext, question_embedding, c, fs, n_objs)
    IN [g EXCEPT !.trace = <<"check">> \o @]

\* chat(request, query), given what rate_limiter.check returned (rc)
chat(ip, original_question, ext, question_embedding, rc, c, fs, n_objs) ==
    IF ~rc.allowed
    THEN Result("RateLimited", 429, <<>>, <<>>, RateMessage(rc),
                <<log_rate_limit(ip, RateMessage(rc))>>,
                <<"check", "log_rate_limit", "raise">>, NoLoad(c, n_objs))
    ELSE LET g == Guarded(ip, original_question, ext, question_embedding, c, fs, n_objs)
         IN [g EXCEPT !.trace = <<"check">> \o @]

----------------------------------------------------------------------------
(* api/index.py: its own corpus store and its own POST /api/chat handler *)

\* content.json: missing (the fallback content is used), a list of records,
\* or unreadable as JSON
ContentFiles == {"missing", "file", "garbled"}
ContentItem(id, url) ==
    [id |-> id, content |-> <<"about ", id>>, has_url |-> TRUE, url |-> url]
fallback_content ==
    <<ContentItem("about", SiteUrl("about")),
      ContentItem("experience", SiteUrl("experience")),
      ContentItem("education", SiteUrl("education"))>>
file_content ==
    <<ContentItem("about", <<"#about">>),
      [ContentItem("skills", <<>>) EXCEPT !.has_url = FALSE],
      ContentItem("education", SiteUrl("education")),
      ContentItem("projects", SiteUrl("projects"))>>

\* load_content(): json.load raises on an unreadable file
index_load_content(cf) ==
    [raised |-> cf = "garbled",
     items |-> IF cf = "file" THEN file_content
               ELSE IF cf = "missing" THEN fallback_content ELSE <<>>]

\* the vector the embedding service returns for a content record
EmbeddingOf(id) ==
    IF id = "about" THEN Vec(<<1, 0>>)
    ELSE IF id = "skills" THEN Vec(<<1, 1>>)
    ELSE IF id = "education" THEN Vec(<<2, 0>>)
    ELSE Vec(<<0, 1>>)

\* the record generate_embeddings_from_content appends for a content record
index_embedded(item) ==
    [id |-> item.id, content |-> item.content,
     url |-> IF item.has_url THEN item.url ELSE SiteUrl(item.id),
     has_embedding |-> TRUE, embedding |-> EmbeddingOf(item.id)]

\* the validation of a loaded file: a non-empty list whose first record has
\* an embedding of more than 100 numbers
index_valid(v) ==
    /\ v.kind = "list"
    /\ v.items # <<>>
    /\ v.items[1].has_embedding
    /\ v.items[1].embedding.dim > 100

\* the loop of load_embeddings over possible_paths from index n on, with
\* cache c: every file that parses is assigned to the cache, and the first
\* valid one is returned
RECURSIVE index_try_paths(_, _, _, _)
index_try_paths(fs, n, c, n_objs) ==
    IF n > Len(possible_paths)
    THEN [returned |-> FALSE, cache |-> c, objs |-> n_objs]
    ELSE LET f == fs[possible_paths[n]]
         IN IF ~f.exists \/ ~f.parses
            THEN index_try_paths(fs, n + 1, c, n_objs)
            ELSE LET c1 == IF f.value.kind = "null" THEN NoCache
                           ELSE [set |-> TRUE, id |-> n_objs + 1, value |-> f.value]
                 IN IF index_valid(f.value)
                    THEN [returned |-> TRUE, cache |-> c1, objs |-> n_objs + 1]
                    ELSE index_try_paths(fs, n + 1, c1, n_objs + 1)

\* "prepare references" of api/index.py: item["id"].replace("_", " ").title()
TitleOf(id) ==
    IF id = "about" THEN "About"
    ELSE IF id = "skills" THEN "Skills"
    ELSE IF id = "education" THEN "Education"
    ELSE IF id = "projects" THEN "Projects"
    ELSE IF id = "experience" THEN "Experience"
    ELSE "Fallback"
index_References(relevant_content) ==
    [i \in DOMAIN relevant_content |->
       [title |-> TitleOf(relevant_content[i].id), url |-> relevant_content[i].url]]

\* the except clause of api/index.py: print, raise HTTPException(500)
index_ApiError(e, trace) ==
    [Result("ExternalError", 500, <<>>, <<>>, <<"An error occurred: ">> \o e, <<>>,
            trace \o <<"raise">>, NoLoad(NoCache, 0))
     EXCEPT !.raised_by = trace[Len(trace)]]

\* chat(request, query) of api/index.py on a loaded corpus
index_chat(original_question, ext, question_embedding, corpus) ==
    LET sanitized_question == Sanitized[original_question]
        t0 == <<"sanitize_input">>
        t1 == t0 \o <<"embeddings.create", "find_relevant_content">>
        found == find_relevant_content(question_embedding, corpus)
    IN IF sanitized_question = <<>>
       THEN Result("EmptyInput", 200, EMPTY_ANSWER, <<>>, <<>>, <<>>,
                   t0 \o <<"return">>, NoLoad(NoCache, 0))
       ELSE IF ext = "embed_raises"
       THEN index_ApiError(EmbedErrorText, t0 \o <<"embeddings.create">>)
       ELSE IF found.raised THEN index_ApiError(found.exc, t1)
       ELSE IF ext = "generate_raises"
       THEN index_ApiError(GenerateErrorText, t1 \o <<"messages.create">>)
       ELSE Result("Answered", 200, GeneratedText, index_References(found.items),
                   <<>>, <<>>, t1 \o <<"messages.create", "return">>,
                   NoLoad(NoCache, 0))

\* the part of a response the caller sees, and the calls made
Seen(r) ==
    [outcome |-> r.outcome, status |-> r.status, answer |-> r.answer,
     references |-> r.references, trace |-> r.trace]

\* before any request, and before any load_embeddings() call
NoRequest ==
    [ip |-> None, question |-> <<>>, allowed |-> FALSE, outcome |-> "",
     status |-> 0, answer |-> <<>>, references |-> <<>>, detail |-> <<>>,
     log |-> <<>>, trace |-> <<>>, raised_by |-> "", retrieved |-> <<>>]

NoLoadYet ==
    [called |-> FALSE, later |-> FALSE, ret |-> NoCache, probed |-> <<>>, opened |-> <<>>]

----------------------------------------------------------------------------
(* Actions *)

\* the requests sent to api/index.py
Reqs == {"r1", "r2", "r3"}
NoRanked == [called |-> FALSE, query |-> ZeroVec, corpus |-> <<>>, k |-> 0, result |-> <<>>]
NoCleaned == [called |-> FALSE, text |-> <<>>, result |-> <<>>]

\* The state after the modules are imported, with the files of one of fss.
InitWith(fss) ==
    /\ now = 0
    /\ ip_data = [i \in {} |-> 0]
    /\ last_cleanup = 0
    /\ nChecks = 0
    /\ recentAdmitted = [i \in IPs |-> <<>>]
    /\ dayAdmitted = [i \in IPs |-> 0]
    /\ denial = [i \in IPs |-> -1]
    /\ lastCheck = NoCheck
    /\ cache = NoCache
    /\ objs = 0
    /\ files \in fss
    /\ nChats = 0
    /\ nWrites = 0
    /\ last = NoRequest
    /\ lastLoad = NoLoadYet
    /\ firstLoaded = NoCache
    /\ lastIndex = Seen(NoRequest)
    /\ answered = FALSE
    /\ index_cache = NoCache
    /\ index_objs = 0
    /\ index_pc = [r \in Reqs |-> "idle"]
    /\ index_running = None
    /\ index_data = [r \in Reqs |-> [todo |-> <<>>, done |-> <<>>]]
    /\ index_got = [r \in Reqs |-> NoCache]
    /\ index_regens = 0
    /\ ranked = NoRanked
    /\ cleaned = NoCleaned

Init == InitWith(FileScenarios)

\* the clock advances to t
Tick(t) ==
    /\ t > now
    /\ now' = t
    /\ recentAdmitted' = [i \in IPs |->
                            NewerThan(recentAdmitted[i], now' - WindowSeconds * Res)]
    /\ UNCHANGED <<ip_data, last_cleanup, nChecks, dayAdmitted, denial, lastCheck>>
    /\ UNCHANGED appVars
    /\ UNCHANGED <<lastIndex, answered, indexVars, pureVars>>

\* rate_limiter.check(ip) is called, in a behaviour of at most max calls
CallCheck(ip, max) ==
    /\ nChecks < max
    /\ nChecks' = nChecks + 1
    /\ \E r \in {check(ip, now, ip_data, last_cleanup)} : DoCheck(ip, r)
    /\ UNCHANGED now
    /\ UNCHANGED appVars
    /\ UNCHANGED <<lastIndex, answered, indexVars, pureVars>>

NextRate ==
    \/ \E t \in Instants : Tick(t)
    \/ \E ip \in IPs : CallCheck(ip, MaxChecks)

\* The limiter alone: the files play no part.
InitRate == Init /\ files = NoFiles

SpecRate == InitRate /\ [][NextRate]_vars

\* One client, one request or more every 61 seconds.
NextDaily ==
    \/ lastCheck.ip # None /\ lastCheck.at = now /\ Tick(now + DailyStep)
    \/ CallCheck("ip1", MaxDailyChecks)

SpecDaily == InitRate /\ [][NextDaily]_vars

----------------------------------------------------------------------------
(* The application: requests, the diagnostic endpoint, the file system *)

\* the bookkeeping of one load_embeddings() call (l.called) or of none
NoteLoad(l) ==
    IF l.called
    THEN /\ lastLoad' = [called |-> TRUE, later |-> firstLoaded.set, ret |-> l.ret,
                         probed |-> l.probed, opened |-> l.opened]
         /\ firstLoaded' = IF firstLoaded.set THEN firstLoaded ELSE l.ret
    ELSE UNCHANGED <<lastLoad, firstLoaded>>

\* POST /api/chat from client ip with the given question
Chat(ip, q, ext, qe) ==
    /\ nChats < MaxChats
    /\ nChats' = nChats + 1
    /\ \E rc \in {check(ip, now, ip_data, last_cleanup)} :
       \E r \in {chat(ip, q, ext, qe, rc, cache, files, objs)} :
          /\ last' = [ip |-> ip, question |-> q, allowed |-> rc.allowed,
                      outcome |-> r.outcome, status |-> r.status, answer |-> r.answer,
                      references |-> r.references, detail |-> r.detail,
                      log |-> r.log, trace |-> r.trace, raised_by |-> r.raised_by,
                      retrieved |-> r.retrieved]
          /\ cache' = r.load.cache
          /\ objs' = r.load.objs
          /\ NoteLoad(r.load)
          /\ DoCheck(ip, rc)
          /\ answered' = (answered \/ r.outcome = "Answered")
    /\ lastIndex' = Seen(index_chat(q, ext, qe, load_embeddings(cache, files, objs).ret.value))
    /\ UNCHANGED <<now, nChecks, files, nWrites>>
    /\ UNCHANGED <<indexVars, pureVars>>

\* GET /api/diagnostic: load_embeddings() and a report
Diagnostic ==
    /\ \E l \in {load_embeddings(cache, files, objs)} :
          /\ cache' = l.cache
          /\ objs' = l.objs
          /\ NoteLoad(Loaded(l))
    /\ UNCHANGED <<now, nChecks, nChats, files, nWrites, last>>
    /\ UNCHANGED rateVars
    /\ UNCHANGED <<lastIndex, answered, indexVars, pureVars>>

\* a file of possible_paths is written, replaced or removed from outside
WriteFile(path, content) ==
    /\ nWrites < MaxWrites
    /\ files[path] # content
    /\ nWrites' = nWrites + 1
    /\ files' = [files EXCEPT ![path] = content]
    /\ UNCHANGED <<now, nChecks, nChats, cache, objs, last, lastLoad, firstLoaded>>
    /\ UNCHANGED rateVars
    /\ UNCHANGED <<lastIndex, answered, indexVars, pureVars>>

\* The chat endpoint under load. One client sends the requests: what the
\* limiter does with several clients is explored by SpecRate.
ChatClients == {"ip1"}
Next ==
    \/ \E t \in ChatInstants : Tick(t)
    \/ \E ip \in ChatClients, q \in Questions, s \in Services : Chat(ip, q, s.ext, s.qe)

Spec == Init /\ [][Next]_vars

\* The corpus store while the files change under it.
NextStore ==
    \/ Diagnostic
    \/ \E path \in Range(possible_paths), content \in FileContents : WriteFile(path, content)

SpecStore == Init /\ [][NextStore]_vars

----------------------------------------------------------------------------
(* api/index.py: requests that reach load_embeddings, step by step *)

\* handlers run in a thread pool, several at a time
Scheduled_threadpool(r) == TRUE

\* chat is an async def that never awaits: its handler keeps the event loop
\* from its first statement to its return
Scheduled(r) == index_running \in {None, r}

\* the files an instance of api/index.py may find when it starts
IndexScenarios ==
    FileScenarios \cup {[NoFiles EXCEPT !["tmp"] = Holding(EmptyCorpus)],
                        [NoFiles EXCEPT !["tmp"] = Garbled, !["cwd"] = Holding(BadCorpus)]}

\* request r reaches load_embeddings(): the cache, else the files, else
\* load_content() (content.json is cf) and the start of a regeneration
IndexBegin(r, cf) ==
    /\ index_pc[r] = "idle"
    /\ Scheduled(r)
    /\ IF index_cache.set
       THEN /\ index_got' = [index_got EXCEPT ![r] = index_cache]
            /\ index_pc' = [index_pc EXCEPT ![r] = "done"]
            /\ UNCHANGED <<index_cache, index_objs, index_data, index_running, index_regens>>
       ELSE \E t \in {index_try_paths(files, 1, index_cache, index_objs)} :
            \E content_data \in {index_load_content(cf)} :
               /\ index_cache' = t.cache
               /\ index_objs' = t.objs
               /\ IF t.returned
                  THEN /\ index_got' = [index_got EXCEPT ![r] = t.cache]
                       /\ index_pc' = [index_pc EXCEPT ![r] = "done"]
                       /\ UNCHANGED <<index_data, index_running, index_regens>>
                  ELSE IF content_data.raised
                  THEN /\ index_pc' = [index_pc EXCEPT ![r] = "failed"]
                       /\ UNCHANGED <<index_got, index_data, index_running, index_regens>>
                  ELSE /\ index_pc' = [index_pc EXCEPT ![r] = "generating"]
                       /\ index_data' = [index_data EXCEPT ![r] =
                                           [todo |-> Take(content_data.items, 3),
                                            done |-> <<>>]]
                       /\ index_running' = r
                       /\ index_regens' = index_regens + 1
                       /\ UNCHANGED index_got
    /\ UNCHANGED <<now, nChecks, lastIndex, answered>>
    /\ UNCHANGED <<rateVars, appVars, pureVars>>

\* one turn of the loop of generate_embeddings_from_content: the embedding
\* call answers (ok) or raises, and then the record is skipped
IndexEmbed(r, ok) ==
    /\ index_pc[r] = "generating"
    /\ Scheduled(r)
    /\ index_data[r].todo # <<>>
    /\ index_data' = [index_data EXCEPT ![r] =
                        [todo |-> Tail(@.todo),
                         done |-> IF ok THEN Append(@.done, index_embedded(Head(@.todo)))
                                  ELSE @.done]]
    /\ UNCHANGED <<index_cache, index_objs, index_pc, index_running, index_got, index_regens>>
    /\ UNCHANGED <<now, nChecks, lastIndex, answered>>
    /\ UNCHANGED <<rateVars, appVars, pureVars>>

\* the end of generate_embeddings_from_content: the cache is assigned, the
\* temp file is written (saved) or the write raises, the corpus is returned
IndexStore(r, saved) ==
    /\ index_pc[r] = "generating"
    /\ Scheduled(r)
    /\ index_data[r].todo = <<>>
    /\ \E new \in {[set |-> TRUE, id |-> index_objs + 1,
                    value |-> JsonList(index_data[r].done)]} :
          /\ index_cache' = new
          /\ index_got' = [index_got EXCEPT ![r] = new]
          /\ files' = IF saved THEN [files EXCEPT !["tmp"] = Holding(new.value)] ELSE files
    /\ index_objs' = index_objs + 1
    /\ index_pc' = [index_pc EXCEPT ![r] = "done"]
    /\ index_running' = None
    /\ UNCHANGED <<index_data, index_regens>>
    /\ UNCHANGED <<now, nChecks, lastIndex, answered>>
    /\ UNCHANGED <<cache, objs, nChats, nWrites, last, lastLoad, firstLoaded>>
    /\ UNCHANGED <<rateVars, pureVars>>

NextIndex ==
    \E r \in Reqs :
       \/ \E cf \in ContentFiles : IndexBegin(r, cf)
       \/ \E ok \in BOOLEAN : IndexEmbed(r, ok)
       \/ \E saved \in BOOLEAN : IndexStore(r, saved)

SpecIndex == InitWith(IndexScenarios) /\ [][NextIndex]_vars

----------------------------------------------------------------------------
(* find_relevant_content on its own *)

\* the records a corpus is made of: two of them are equally similar to every
\* query, one has the zero vector
RankItems ==
    {Item("about", <<"#about">>, <<1, 0>>), Item("skills", SiteUrl("skills"), <<0, 1>>),
     Item("education", SiteUrl("education"), <<2, 0>>),
     Item("projects", SiteUrl("projects"), <<0, 0>>)}
\* the lists of at most MaxCorpus records, no record twice
RankCorpora ==
    {c \in UNION {[1..n -> RankItems] : n \in 0..MaxCorpus} :
       \A i, j \in DOMAIN c : c[i] = c[j] => i = j}
RankQueries == {Vec(<<1, 0>>), Vec(<<1, 2>>), Vec(<<-1, 1>>), ZeroVec}

\* find_relevant_content(query_embedding, top_k=k) is called on corpus c
\* (one call in a behaviour: the function keeps nothing between calls)
Rank(query_embedding, c, k) ==
    /\ ~ranked.called
    /\ ranked' = [called |-> TRUE, query |-> query_embedding, corpus |-> c, k |-> k,
                  result |-> find_relevant_content_top(query_embedding, JsonList(c), k).items]
    /\ UNCHANGED cleaned
    /\ UNCHANGED <<now, nChecks, lastIndex, answered>>
    /\ UNCHANGED <<rateVars, appVars, indexVars>>

NextRank ==
    \E query_embedding \in RankQueries, c \in RankCorpora, k \in 0..MaxTopK :
       Rank(query_embedding, c, k)

SpecRank == InitWith({NoFiles}) /\ [][NextRank]_vars

----------------------------------------------------------------------------
(* sanitize_input on its own *)

\* the characters the texts are made of: letters, a digit, the underscore,
\* two kinds of whitespace, kept and removed punctuation
SanitizeChars == {"a", "Z", "7", "_", " ", "\t", "<", "-", "."}
SanitizeTexts == UNION {[1..n -> SanitizeChars] : n \in 0..MaxText}

\* sanitize_input(text) is called (one call in a behaviour: the function
\* keeps nothing between calls)
Sanitize(text) ==
    /\ ~cleaned.called
    /\ cleaned' = [called |-> TRUE, text |-> text, result |-> sanitize_input(text)]
    /\ UNCHANGED ranked
    /\ UNCHANGED <<now, nChecks, lastIndex, answered>>
    /\ UNCHANGED <<rateVars, appVars, indexVars>>

NextSanitize == \E text \in SanitizeTexts : Sanitize(text)

SpecSanitize == InitWith({NoFiles}) /\ [][NextSanitize]_vars

----------------------------------------------------------------------------
(* Claims about RateLimiter *)

Checked == lastCheck.ip # None

\* C1: for every client, the number of requests admitted in any trailing
\* 60-second span is at most 5 (the span (now - 60 s, now] at every state,
\* which covers every span that ends at an admission).
C1_AtMostFivePerMinute ==
    \A ip \in IPs : Len(recentAdmitted[ip]) <= short_limit

\* C2: once 20 requests were admitted since the client's first recorded
\* request, a check made less than 24 hours after that first request is
\* denied.
C2_DailyQuotaDenies ==
    (/\ Checked
     /\ lastCheck.hadRecord
     /\ lastCheck.priorDay >= daily_limit
     /\ lastCheck.at - lastCheck.priorFirst < DaySeconds * Res)
    => ~lastCheck.allowed

\* C3: a client with 5 admitted requests in the trailing 60 seconds is
\* denied on its next check, is told to wait between 1 and 60 seconds, and
\* the denied check records no new timestamp.
C3_SixthDenied ==
    (Checked /\ lastCheck.priorRecent >= short_limit)
    => /\ ~lastCheck.allowed
       /\ lastCheck.wait \in 1..WindowSeconds
       /\ lastCheck.requests =
             NewerThan(lastCheck.priorRequests, lastCheck.at - WindowSeconds * Res)

\* C4: a client denied by the short window, whose daily quota is not
\* exhausted, is admitted by its next check once 60 seconds have passed since
\* the oldest of its 5 recorded requests.
C4_AdmittedAfterWindow ==
    (/\ Checked
     /\ lastCheck.priorDenial >= 0
     /\ lastCheck.priorDay < daily_limit
     /\ lastCheck.at - lastCheck.priorDenial >= WindowSeconds * Res)
    => lastCheck.allowed

\* C4 happens: a denied client checks again exactly 60 seconds after its
\* oldest recorded request and is admitted.
C4_Witness ==
    /\ Checked
    /\ lastCheck.priorDenial >= 0
    /\ lastCheck.at - lastCheck.priorDenial = WindowSeconds * Res
    /\ lastCheck.allowed

----------------------------------------------------------------------------
(* Claims about the chat handler *)

Requested == last.ip # None
ExternalCalls == {"embeddings.create", "messages.create"}
Terminal == {"return", "raise"}
Blocked == {"RateLimited", "EmptyInput", "InjectionBlocked", "UnsafeBlocked"}
Positions(trace, events) == {i \in DOMAIN trace : trace[i] \in events}
\* the text w occurs in text
Occurs(w, text) == \E p \in 1..(Len(text) + 1) : HasAt(text, p, w)

\* C5: a request ends in exactly one terminal outcome, the first that applies
\* of RateLimited, EmptyInput, InjectionBlocked, UnsafeBlocked, and else
\* Answered or ExternalError.
C5_FirstMatchingOutcome ==
    Requested =>
       /\ Positions(last.trace, Terminal) = {Len(last.trace)}
       /\ IF ~last.allowed THEN last.outcome = "RateLimited"
          ELSE IF Sanitized[last.question] = <<>> THEN last.outcome = "EmptyInput"
          ELSE IF IsInjection[last.question] THEN last.outcome = "InjectionBlocked"
          ELSE IF ~IsSafe[last.question] THEN last.outcome = "UnsafeBlocked"
          ELSE last.outcome \in {"Answered", "ExternalError"}

\* C5 happens: a rate-limited client sends a question that is both an
\* injection and unsafe, and gets RateLimited.
C5_Witness ==
    /\ Requested
    /\ last.outcome = "RateLimited"
    /\ IsInjection[last.question]
    /\ ~IsSafe[last.question]

\* C6: a request that ends RateLimited, EmptyInput, InjectionBlocked or
\* UnsafeBlocked calls neither service; a service is called only after the
\* rate check admitted the request and the guard found the sanitized question
\* clean.
C6_NoExternalCallWhenBlocked ==
    Requested =>
       /\ last.outcome \in Blocked => Positions(last.trace, ExternalCalls) = {}
       /\ \A i \in Positions(last.trace, ExternalCalls) :
             /\ last.allowed
             /\ Sanitized[last.question] # <<>>
             /\ ~IsInjection[last.question]
             /\ IsSafe[last.question]
             /\ \A e \in {"check", "sanitize_input", "detect_prompt_injection",
                           "check_content_safety"} :
                   \E j \in 1..(i - 1) : last.trace[j] = e

\* C6 happens: an answered request called both services, in order.
C6_Witness ==
    /\ Requested
    /\ last.outcome = "Answered"
    /\ \E i, j \in DOMAIN last.trace :
          i < j /\ last.trace[i] = "embeddings.create" /\ last.trace[j] = "messages.create"

\* C7: an admitted request whose sanitized question is an injection gets the
\* fixed redirect message and no references, and writes exactly one log line:
\* a security event of type PROMPT_INJECTION with the original question.
C7_InjectionRedirected ==
    (/\ Requested
     /\ last.allowed
     /\ Sanitized[last.question] # <<>>
     /\ IsInjection[last.question])
    => /\ last.status = 200
       /\ last.answer = REDIRECT_ANSWER
       /\ last.references = <<>>
       /\ Len(last.log) = 1
       /\ last.log[1].fn = "log_security_event"
       /\ last.log[1].type = "PROMPT_INJECTION"
       /\ last.log[1].details = last.question

\* C7 happens: an injection whose original text differs from the sanitized
\* text was blocked.
C7_Witness ==
    /\ Requested
    /\ last.outcome = "InjectionBlocked"
    /\ Sanitized[last.question] # last.question

\* C8: when a service call raises, the text of the exception is in the log
\* line and not in the response.
C8_ExceptionTextNotInResponse ==
    (Requested /\ last.raised_by \in ExternalCalls)
    => /\ Len(last.log) = 1
       /\ last.log[1].type = "API_ERROR"
       /\ ~Occurs(last.log[1].details, last.detail)
       /\ ~Occurs(last.log[1].details, last.answer)

\* C9: the status is 200 for EmptyInput, InjectionBlocked, UnsafeBlocked and
\* Answered, 429 exactly when the rate check denied the request, and 500
\* exactly when a service call failed.
C9_StatusByOutcome ==
    Requested =>
       /\ last.outcome \in {"EmptyInput", "InjectionBlocked", "UnsafeBlocked", "Answered"}
             => last.status = 200
       /\ last.status = 429 <=> ~last.allowed
       /\ last.status = 500 <=> last.raised_by \in ExternalCalls

----------------------------------------------------------------------------
(* Claims about the corpus store *)

\* C10: once load_embeddings() has returned a corpus, every later call
\* returns that same object and touches no file.
C10_LoadIsIdempotent ==
    (lastLoad.called /\ lastLoad.later)
    => /\ lastLoad.ret = firstLoaded
       /\ cache = firstLoaded
       /\ lastLoad.probed = <<>>
       /\ lastLoad.opened = <<>>

\* C10 happens: a later call returned the first corpus although the files
\* now hold another one.
C10_Witness ==
    /\ lastLoad.called
    /\ lastLoad.later
    /\ TryPaths(files, 1).found
    /\ TryPaths(files, 1).value.kind = "list"
    /\ TryPaths(files, 1).value # lastLoad.ret.value

\* a corpus the store may serve: a non-empty list whose records all carry an
\* embedding of the embedding size
Usable(v) ==
    /\ v.kind = "list"
    /\ v.items # <<>>
    /\ \A i \in DOMAIN v.items :
          v.items[i].has_embedding /\ v.items[i].embedding.dim = EmbeddingSize
\* the locations, in priority order, whose file parses to a usable corpus
UsablePaths(fs) ==
    {n \in DOMAIN possible_paths :
       LET f == fs[possible_paths[n]] IN f.exists /\ f.parses /\ Usable(f.value)}

\* C11: load_embeddings returns and keeps the first file, in priority order,
\* that parses to a non-empty corpus with valid embeddings; an empty corpus
\* or one whose records lack an embedding is never returned nor cached.
C11_FirstUsableCorpus ==
    /\ cache.set => Usable(cache.value)
    /\ lastLoad.called => Usable(lastLoad.ret.value)
    /\ (lastLoad.called /\ ~lastLoad.later /\ nWrites = 0 /\ UsablePaths(files) # {})
       => \E n \in UsablePaths(files) :
             /\ \A m \in UsablePaths(files) : n <= m
             /\ lastLoad.ret.value = files[possible_paths[n]].value

----------------------------------------------------------------------------
(* Claims about the corpus store of api/index.py *)

\* C12: of the requests that call load_embeddings, at most one is
\* regenerating the corpus at any time, and every request that was given a
\* corpus was given the object the cache holds.
C12_SingleRegeneration ==
    /\ Cardinality({r \in Reqs : index_pc[r] = "generating"}) <= 1
    /\ \A r \in Reqs : index_pc[r] = "done" => index_got[r] = index_cache

\* C12 happens: a regeneration is over, and two requests hold its corpus.
C12_Witness ==
    /\ index_regens = 1
    /\ \E r1, r2 \in Reqs :
          /\ r1 # r2
          /\ index_pc[r1] = "done"
          /\ index_pc[r2] = "done"
          /\ index_got[r1] = index_got[r2]
          /\ index_got[r1].value.items # <<>>

----------------------------------------------------------------------------
(* Claims about retrieval *)

\* the rate check admitted the last request and the guard found it clean
Clean ==
    /\ Requested
    /\ last.allowed
    /\ Sanitized[last.question] # <<>>
    /\ ~IsInjection[last.question]
    /\ IsSafe[last.question]

\* C13: whatever the corpus files hold (nothing, an unparsable file, an
\* empty list, records without an embedding), a clean, admitted request
\* during which no service call raised ends Answered with status 200.
C13_CorpusNeverFailsRequest ==
    (Clean /\ last.raised_by \notin ExternalCalls)
    => (last.outcome = "Answered" /\ last.status = 200)

\* where the record with this id stands in the corpus
PositionOf(id, c) == CHOOSE i \in DOMAIN c : c[i].id = id
SimEqual(x, y) == ~SimGreater(x, y) /\ ~SimGreater(y, x)

\* C14: find_relevant_content returns min(top_k, |corpus|) records of the
\* corpus, in order of non-increasing similarity, and records of equal
\* similarity in the order they have in the corpus.
C14_RankedTopK ==
    ranked.called =>
       LET res == ranked.result
           c == ranked.corpus
       IN /\ Len(res) = (IF ranked.k < Len(c) THEN ranked.k ELSE Len(c))
          /\ \A i \in DOMAIN res :
                /\ \E j \in DOMAIN c : c[j].id = res[i].id
                /\ res[i].similarity =
                      cosine_similarity(ranked.query, c[PositionOf(res[i].id, c)].embedding)
          /\ \A i, j \in DOMAIN res :
                i < j =>
                   /\ ~SimGreater(res[j].similarity, res[i].similarity)
                   /\ SimEqual(res[i].similarity, res[j].similarity)
                         => PositionOf(res[i].id, c) < PositionOf(res[j].id, c)

\* C14 happens: two records of equal, non-zero similarity were returned, and
\* top_k cut the list short.
C14_Witness ==
    /\ ranked.called
    /\ Len(ranked.result) = ranked.k
    /\ ranked.k < Len(ranked.corpus)
    /\ \E i, j \in DOMAIN ranked.result :
          /\ i < j
          /\ SimEqual(ranked.result[i].similarity, ranked.result[j].similarity)
          /\ ranked.result[i].similarity.num # 0

\* C15: an answer has one reference per retrieved record, in ranked order,
\* whose title is the record's id and whose url is the record's stored url.
C15_ReferencesFollowRecords ==
    (Requested /\ last.outcome = "Answered")
    => /\ Len(last.references) = Len(last.retrieved)
       /\ \A i \in DOMAIN last.references :
             /\ last.references[i].title = last.retrieved[i].id
             /\ last.references[i].url = last.retrieved[i].url

----------------------------------------------------------------------------
(* Claims about the input guard *)

\* C16: the result of sanitize_input holds only letters, digits, single
\* spaces and . , ? ! - (the underscore is removed), neither starts nor ends
\* with whitespace, has no two whitespace characters in a row, and is empty
\* for an empty or whitespace-only input.
C16_SanitizedAlphabet ==
    cleaned.called =>
       LET r == cleaned.result
       IN /\ \A i \in DOMAIN r :
                r[i] \in Range(LowerCase) \cup Range(UpperCase) \cup Digits
                         \cup {" ", ".", ",", "?", "!", "-"}
          /\ r # <<>> => ~IsSpace(r[1]) /\ ~IsSpace(r[Len(r)])
          /\ \A i \in 1..(Len(r) - 1) : ~(IsSpace(r[i]) /\ IsSpace(r[i + 1]))
          /\ (\A i \in DOMAIN cleaned.text : IsSpace(cleaned.text[i])) => r = <<>>

----------------------------------------------------------------------------
(* Claims about the bookkeeping of RateLimiter *)

\* the sweep is due: more than cleanup_interval seconds since the last one
SweepDue == now - last_cleanup > cleanup_interval * Res
\* the record of client j is more than 24 hours old
Expired(j) == j \in DOMAIN ip_data /\ ip_data[j].first_request < now - DaySeconds * Res
\* a step in which check() is called
CheckStep == nChecks' = nChecks + 1

\* C17: the sweep acts only when more than cleanup_interval has passed since
\* the previous one; then it removes exactly the records whose first_request
\* is more than 24 hours old, keeps every other record as it is and sets
\* last_cleanup to the current time; otherwise nothing changes. (The record
\* of the calling client is then updated by check itself: it keeps its
\* first_request unless it was removed or missing.)
C17_SweepFrame ==
    [][/\ CheckStep =>
            /\ last_cleanup' = IF SweepDue THEN now ELSE last_cleanup
            /\ \A j \in IPs \ {lastCheck'.ip} :
                  IF SweepDue /\ Expired(j)
                  THEN j \notin DOMAIN ip_data'
                  ELSE /\ j \in DOMAIN ip_data' <=> j \in DOMAIN ip_data
                       /\ j \in DOMAIN ip_data => ip_data'[j] = ip_data[j]
            /\ LET j == lastCheck'.ip
               IN ip_data'[j].first_request =
                     IF j \notin DOMAIN ip_data \/ (SweepDue /\ Expired(j))
                     THEN now ELSE ip_data[j].first_request
       /\ ~CheckStep => UNCHANGED <<ip_data, last_cleanup>>]_vars

\* C17 happens: a check ran the sweep, which removed the caller's expired
\* record and kept the record of the other client.
C17_Witness ==
    /\ Checked
    /\ lastCheck.swept
    /\ lastCheck.hadRecord
    /\ lastCheck.priorFirst < lastCheck.at - DaySeconds * Res
    /\ ip_data[lastCheck.ip].first_request = lastCheck.at
    /\ \E j \in DOMAIN ip_data :
          j # lastCheck.ip /\ ip_data[j].first_request < lastCheck.at

\* C18: after a check, every timestamp in the client's requests list is less
\* than 60 seconds older than the check, and the list is in time order.
C18_RequestsRecentAndOrdered ==
    Checked =>
       /\ \A i \in DOMAIN lastCheck.requests :
             lastCheck.at - lastCheck.requests[i] < WindowSeconds * Res
       /\ \A i, j \in DOMAIN lastCheck.requests :
             i < j => lastCheck.requests[i] <= lastCheck.requests[j]

\* C18 happens: a check dropped a timestamp 60 seconds old and kept a
\* younger one.
C18_Witness ==
    /\ Checked
    /\ \E i \in DOMAIN lastCheck.priorRequests :
          lastCheck.at - lastCheck.priorRequests[i] >= WindowSeconds * Res
    /\ Len(lastCheck.requests) >= 2

----------------------------------------------------------------------------
(* Claims about the handlers of POST /api/chat taken together *)

\* the checks a handler makes before it may call a service
Checks == {"check", "detect_prompt_injection", "check_content_safety"}

C20_SanitizeKeepsInjection ==
    (Requested /\ last.allowed /\ RawInjection[last.question])
    => /\ IsInjection[last.question]
       /\ last.outcome = "InjectionBlocked"

----------------------------------------------------------------------------
(* Claims about the rate limiter inside the handler *)

\* a step in which POST /api/chat is handled
ChatStep == nChats' = nChats + 1
\* the timestamps of client j that a check made now keeps: those less than
\* 60 seconds old, of a record the sweep does not remove
KeptRequests(j) ==
    IF j \in DOMAIN ip_data /\ ~(SweepDue /\ Expired(j))
    THEN SelectSeq(ip_data[j].requests, LAMBDA t : now - t < WindowSeconds * Res)
    ELSE <<>>

\* C21: the handler calls check first; a request is admitted exactly when
\* fewer than 5 timestamps of the client are less than 60 seconds old, and an
\* admitted request leaves its timestamp at the end of the client's list
\* whatever its outcome (EmptyInput, InjectionBlocked, UnsafeBlocked,
\* ExternalError or Answered); a denied request leaves none; nothing but a
\* request changes the records.
C21_AdmittedIsRecorded ==
    [][/\ ChatStep =>
            LET j == last'.ip
                kept == KeptRequests(j)
            IN /\ last'.trace[1] = "check"
               /\ Positions(last'.trace, {"check"}) = {1}
               /\ last'.allowed <=> Len(kept) < short_limit
               /\ last'.allowed <=> last'.outcome # "RateLimited"
               /\ ip_data'[j].requests =
                     IF last'.allowed THEN Append(kept, now) ELSE kept
       /\ ~ChatStep => UNCHANGED ip_data]_vars

\* C21 happens: a client none of whose requests was answered (each ended
\* EmptyInput, InjectionBlocked, UnsafeBlocked or ExternalError) is denied by
\* the rate limiter, with five timestamps on its record.
C21_Witness ==
    /\ Requested
    /\ last.outcome = "RateLimited"
    /\ ~answered
    /\ Len(ip_data[last.ip].requests) = short_limit

====
